---- MODULE Spec2Model ----
(***************************************************************************)
(* A model of cubalt's cube kernel: the packed 32-byte cube state, the     *)
(* group algebra of avx2.rs (compose, compose_mirror, invert, parity), the *)
(* coordinate codecs (unrank_corner_orient, corner_orient, set_edge_perm)  *)
(* and the generated move and symmetry tables of cube.rs.                  *)
(*                                                                         *)
(* A vector register is a function from byte positions to bytes: an m256i  *)
(* is [0..31 -> Byte], an m128i is [0..15 -> Byte] and a 64-bit scalar is  *)
(* [0..7 -> Byte], byte 0 the least significant.  The vector intrinsics    *)
(* are operators on these, computed byte by byte as the instructions do.   *)
(***************************************************************************)
EXTENDS Integers, Sequences, FiniteSets, TLC

(*-------------------------- bits and bytes -------------------------------*)

Byte == 0..255

\* the powers of two 2^0 .. 2^30
Pow2Table ==
  << 1, 2, 4, 8, 16, 32, 64, 128, 256, 512, 1024, 2048, 4096, 8192, 16384,
     32768, 65536, 131072, 262144, 524288, 1048576, 2097152, 4194304,
     8388608, 16777216, 33554432, 67108864, 134217728, 268435456,
     536870912, 1073741824 >>

Pow2(k) == Pow2Table[k + 1]

\* bit k of the natural number n
Bit(n, k) == (n \div Pow2(k)) % 2

\* Bitwise operators on bytes, one bit at a time.
RECURSIVE BitAnd(_, _)
BitAnd(a, b) ==
  IF a = 0 \/ b = 0 THEN 0
  ELSE IF a = 255 THEN b
  ELSE IF b = 255 THEN a
  ELSE (a % 2) * (b % 2) + 2 * BitAnd(a \div 2, b \div 2)

RECURSIVE BitOr(_, _)
BitOr(a, b) ==
  IF a = 0 THEN b
  ELSE IF b = 0 THEN a
  ELSE (IF a % 2 = 1 \/ b % 2 = 1 THEN 1 ELSE 0) + 2 * BitOr(a \div 2, b \div 2)

RECURSIVE BitXor(_, _)
BitXor(a, b) ==
  IF a = 0 THEN b
  ELSE IF b = 0 THEN a
  ELSE ((a + b) % 2) + 2 * BitXor(a \div 2, b \div 2)

\* A byte read as a signed 8-bit integer (the epi8 comparisons are signed).
Signed8(b) == IF b >= 128 THEN b - 256 ELSE b

Min(a, b) == IF a <= b THEN a ELSE b

\* A vector or scalar register holds its bytes: TLC keeps a function
\* [i \in S |-> e] unevaluated and recomputes e at every application, so each
\* register value is combined with the empty function, which evaluates it once.
Vec(f) == f @@ <<>>

(*-------------------------- 64-bit scalars -------------------------------*)

\* The bytes of a 32-bit literal, least significant first.
Bytes32(w) == Vec([k \in 0..3 |-> (w \div Pow2(8 * k)) % 256])

\* A 64-bit literal 0xHHHHHHHHLLLLLLLL, given as its two 32-bit halves.
U64(hi, lo) == Vec([k \in 0..7 |-> IF k < 4 THEN Bytes32(lo)[k] ELSE Bytes32(hi)[k - 4]])

Zero64 == Vec([k \in 0..7 |-> 0])

Or64(a, b) == Vec([k \in 0..7 |-> BitOr(a[k], b[k])])

And64(a, b) == Vec([k \in 0..7 |-> BitAnd(a[k], b[k])])

\* bit k (0..63) of a 64-bit scalar
Bit64(a, k) == Bit(a[k \div 8], k % 8)

\* The byte made of the eight bits bit(0) .. bit(7).
ByteOfBits(bit(_)) ==
  bit(0) + 2 * bit(1) + 4 * bit(2) + 8 * bit(3)
  + 16 * bit(4) + 32 * bit(5) + 64 * bit(6) + 128 * bit(7)

\* i64 >> s for 0 <= s < 64: an arithmetic shift, the sign bit fills.
Shr64(a, s) ==
  Vec([k \in 0..7 |->
     LET b(j) == IF 8 * k + j + s < 64 THEN Bit64(a, 8 * k + j + s) ELSE Bit64(a, 63)
     IN  ByteOfBits(b)])

\* i64 << s for 0 <= s < 64
Shl64(a, s) ==
  Vec([k \in 0..7 |->
     LET b(j) == IF 8 * k + j >= s THEN Bit64(a, 8 * k + j - s) ELSE 0
     IN  ByteOfBits(b)])

\* carry into byte k of a + b
RECURSIVE Carry64(_, _, _)
Carry64(a, b, k) ==
  IF k = 0 THEN 0 ELSE (a[k - 1] + b[k - 1] + Carry64(a, b, k - 1)) \div 256

\* a + b modulo 2^64
Add64(a, b) == Vec([k \in 0..7 |-> (a[k] + b[k] + Carry64(a, b, k)) % 256])

(*------------------------- vector intrinsics -----------------------------*)

Lanes256 == 0..31

\* _mm256_set_epi64x(e3, e2, e1, e0)
mm256_set_epi64x(e3, e2, e1, e0) ==
  Vec([i \in Lanes256 |->
     IF i < 8 THEN e0[i]
     ELSE IF i < 16 THEN e1[i - 8]
     ELSE IF i < 24 THEN e2[i - 16]
     ELSE e3[i - 24]])

\* _mm256_extract_epi64(v, k)
mm256_extract_epi64(v, k) == Vec([j \in 0..7 |-> v[8 * k + j]])

\* _mm256_set1_epi8(b)
mm256_set1_epi8(b) == Vec([i \in Lanes256 |-> b])

\* _mm256_shuffle_epi8(a, b): within each 128-bit lane, byte i is zero when
\* b[i] has its top bit set and a[lane base + low four bits of b[i]] otherwise.
mm256_shuffle_epi8(a, b) ==
  Vec([i \in Lanes256 |->
     IF b[i] >= 128 THEN 0 ELSE a[(i \div 16) * 16 + (b[i] % 16)]])

mm256_and_si256(a, b) == Vec([i \in Lanes256 |-> BitAnd(a[i], b[i])])

mm256_or_si256(a, b) == Vec([i \in Lanes256 |-> BitOr(a[i], b[i])])

mm256_xor_si256(a, b) == Vec([i \in Lanes256 |-> BitXor(a[i], b[i])])

mm256_add_epi8(a, b) == Vec([i \in Lanes256 |-> (a[i] + b[i]) % 256])

mm256_sub_epi8(a, b) == Vec([i \in Lanes256 |-> (a[i] - b[i] + 256) % 256])

mm256_min_epu8(a, b) == Vec([i \in Lanes256 |-> Min(a[i], b[i])])

mm256_cmpeq_epi8(a, b) == Vec([i \in Lanes256 |-> IF a[i] = b[i] THEN 255 ELSE 0])

mm256_cmpgt_epi8(a, b) ==
  Vec([i \in Lanes256 |-> IF Signed8(a[i]) > Signed8(b[i]) THEN 255 ELSE 0])

\* _mm256_bslli_epi128(v, k): each 128-bit lane shifted left by k bytes
mm256_bslli_epi128(v, k) ==
  Vec([i \in Lanes256 |-> IF i % 16 >= k THEN v[i - k] ELSE 0])

\* _mm256_alignr_epi8(a, b, k), k <= 16: per lane, bytes k..k+15 of a:b
mm256_alignr_epi8(a, b, k) ==
  Vec([i \in Lanes256 |->
     IF (i % 16) + k < 16 THEN b[i + k] ELSE a[i + k - 16]])

\* _mm256_movemask_epi8(v): the top bit of every byte; bit i of the i32
\* result is given as element i.
mm256_movemask_epi8(v) == Vec([i \in Lanes256 |-> v[i] \div 128])

\* the 32 bits of a non-negative i32 literal
Bits32(c) == Vec([i \in 0..31 |-> IF i = 31 THEN 0 ELSE Bit(c, i)])

Xor32(a, b) == Vec([i \in 0..31 |-> (a[i] + b[i]) % 2])

\* _popcnt32
RECURSIVE PopUpTo(_, _)
PopUpTo(m, i) == IF i < 0 THEN 0 ELSE m[i] + PopUpTo(m, i - 1)

popcnt32(m) == PopUpTo(m, 31)

(*------------------------------ avx2.rs ----------------------------------*)

identity ==
  mm256_set_epi64x(U64(\h0f0e0d0c, \h0b0a0908), U64(\h07060504, \h03020100),
                   U64(\h0f0e0d0c, \h0b0a0908), U64(\h07060504, \h03020100))

edges_low(v) == mm256_extract_epi64(v, 0)

edges_high(v) == mm256_extract_epi64(v, 1)

corners(v) == mm256_extract_epi64(v, 2)

literal(corners_, edges_high_, edges_low_) ==
  mm256_set_epi64x(U64(\h0f0e0d0c, \h0b0a0908), corners_,
                   Or64(U64(\h0f0e0d0c, \h00000000), edges_high_), edges_low_)

equals(a, b) == \A i \in Lanes256 : mm256_cmpeq_epi8(a, b)[i] = 255

\* The carry thresholds of compose: 0x20 per edge byte, 0x30 per corner byte.
vcarry ==
  mm256_set_epi64x(U64(\h30303030, \h30303030), U64(\h30303030, \h30303030),
                   U64(\h20202020, \h20202020), U64(\h20202020, \h20202020))

\* compose with the operands of the shuffle exchanged
compose_shuffle_swapped(a, b, mirror) ==
  LET vperm0 == mm256_shuffle_epi8(b, a)
      vori   == mm256_and_si256(b, mm256_set1_epi8(\hf0))
      vperm1 == mm256_add_epi8(vperm0, vori)
  IN  mm256_min_epu8(vperm1, mm256_sub_epi8(vperm1, vcarry))

compose_perhaps_mirror(a, b, mirror) ==
  LET vperm0 == mm256_shuffle_epi8(a, b)
      vori   == mm256_and_si256(b, mm256_set1_epi8(\hf0))
  IN  IF mirror
      THEN LET vperm1 == mm256_sub_epi8(vperm0, vori)
           IN  mm256_min_epu8(vperm1, mm256_add_epi8(vperm1, vcarry))
      ELSE LET vperm1 == mm256_add_epi8(vperm0, vori)
           IN  mm256_min_epu8(vperm1, mm256_sub_epi8(vperm1, vcarry))

compose(a, b) == compose_perhaps_mirror(a, b, FALSE)

\* compose_mirror with the corner orientations added, as compose adds them
compose_mirror_added(a, b) == compose_perhaps_mirror(a, b, FALSE)

compose_mirror(a, b) == compose_perhaps_mirror(a, b, TRUE)

\* The start value of the inverse permutation: the four padding bytes of
\* each lane already hold their own index.
vi_init ==
  mm256_set_epi64x(U64(\h0f0e0d0c, \h00000000), U64(\h00000000, \h00000000),
                   U64(\h0f0e0d0c, \h00000000), U64(\h00000000, \h00000000))

\* The loop `for i in 0..12` of invert, after trials 0 .. i-1.
RECURSIVE invert_loop(_, _)
invert_loop(vperm, i) ==
  IF i = 0 THEN vi_init
  ELSE LET vtrial   == mm256_set1_epi8(i - 1)
           vcorrect == mm256_cmpeq_epi8(identity, mm256_shuffle_epi8(vperm, vtrial))
       IN  mm256_or_si256(invert_loop(vperm, i - 1),
                          mm256_and_si256(vtrial, vcorrect))

vcarry_corners ==
  mm256_set_epi64x(U64(\h30303030, \h30303030), U64(\h30303030, \h30303030),
                   U64(\h10101010, \h10101010), U64(\h10101010, \h10101010))

\* invert without the orientations moved to their destination slots
invert_orient_unpermuted(v) ==
  LET vperm == mm256_and_si256(v, mm256_set1_epi8(\h0f))
      vori0 == mm256_xor_si256(v, vperm)
      vi    == invert_loop(vperm, 12)
      vori1 == mm256_add_epi8(vori0, vori0)
      vori2 == mm256_min_epu8(vori1, mm256_sub_epi8(vori1, vcarry_corners))
  IN  mm256_or_si256(vi, vori2)

\* invert with the doubled orientations left unreduced
invert_unwrapped(v) ==
  LET vperm == mm256_and_si256(v, mm256_set1_epi8(\h0f))
      vori0 == mm256_xor_si256(v, vperm)
      vi    == invert_loop(vperm, 12)
      vori1 == mm256_add_epi8(vori0, vori0)
  IN  mm256_or_si256(vi, mm256_shuffle_epi8(vori1, vi))

invert(v) ==
  LET vperm == mm256_and_si256(v, mm256_set1_epi8(\h0f))
      vori0 == mm256_xor_si256(v, vperm)
      vi    == invert_loop(vperm, 12)
      vori1 == mm256_add_epi8(vori0, vori0)
      vori2 == mm256_min_epu8(vori1, mm256_sub_epi8(vori1, vcarry_corners))
      vori3 == mm256_shuffle_epi8(vori2, vi)
  IN  mm256_or_si256(vi, vori3)

\* the correction with its lowest bit lost
parity_correction_5e == \h5f005e

\* The mask xored into the comparison bitmask of parity.
parity_correction == \h5f005f

\* the inversion tests of parity on the vector v, with the correction c_
\* xored into the comparison bitmask
parity_tests(v, c_) ==
  LET a0 == mm256_bslli_epi128(v, 1)
      b  == mm256_bslli_epi128(v, 2)
      c0 == mm256_bslli_epi128(v, 3)
      d  == mm256_bslli_epi128(v, 4)
      e0 == mm256_bslli_epi128(v, 8)
      f  == mm256_alignr_epi8(v, v, 11)
      g  == mm256_alignr_epi8(v, v, 10)
      h  == mm256_alignr_epi8(v, v, 9)
      a  == mm256_xor_si256(mm256_cmpgt_epi8(a0, v), mm256_cmpgt_epi8(b, v))
      c  == mm256_xor_si256(mm256_cmpgt_epi8(c0, v), mm256_cmpgt_epi8(d, v))
      e  == mm256_xor_si256(mm256_cmpgt_epi8(e0, v), mm256_cmpgt_epi8(f, v))
      p0 == mm256_xor_si256(mm256_xor_si256(a, c), e)
      p1 == mm256_xor_si256(p0, mm256_cmpgt_epi8(g, v))
      p2 == mm256_xor_si256(p1, mm256_cmpgt_epi8(h, v))
  IN  popcnt32(Xor32(mm256_movemask_epi8(p2), Bits32(c_))) % 2 # 0

\* parity with the orientation bits left in the compared bytes
parity_unmasked(v_) == parity_tests(v_, parity_correction)

\* parity with 0 in the place of the correction
parity_uncorrected(v_) ==
  parity_tests(mm256_and_si256(v_, mm256_set1_epi8(\h0f)), 0)

parity(v_) ==
  parity_tests(mm256_and_si256(v_, mm256_set1_epi8(\h0f)), parity_correction)

(*------------------------------ cube.rs ----------------------------------*)

\* Cube::new
Cube_new(corners_, edges_high_, edges_low_) == literal(corners_, edges_high_, edges_low_)

\* Cube::moves: U, U2, U', R, R2, R', F, F2, F', D, D2, D', L, L2, L', B, B2, B'
moves_table(k) ==
  CASE k = 0 -> Cube_new(U64(\h07060504, \h02010003), U64(\h00000000, \h0b0a0908), U64(\h07060504, \h02010003))
    [] k = 1 -> Cube_new(U64(\h07060504, \h01000302), U64(\h00000000, \h0b0a0908), U64(\h07060504, \h01000302))
    [] k = 2 -> Cube_new(U64(\h07060504, \h00030201), U64(\h00000000, \h0b0a0908), U64(\h07060504, \h00030201))
    [] k = 3 -> Cube_new(U64(\h23060517, \h10020124), U64(\h00000000, \h000a0904), U64(\h0706050b, \h03020108))
    [] k = 4 -> Cube_new(U64(\h00060503, \h04020107), U64(\h00000000, \h080a090b), U64(\h07060500, \h03020104))
    [] k = 5 -> Cube_new(U64(\h24060510, \h17020123), U64(\h00000000, \h040a0900), U64(\h07060508, \h0302010b))
    [] k = 6 -> Cube_new(U64(\h07061420, \h03022511), U64(\h00000000, \h0b0a1511), U64(\h07061804, \h03021900))
    [] k = 7 -> Cube_new(U64(\h07060001, \h03020405), U64(\h00000000, \h0b0a0809), U64(\h07060104, \h03020500))
    [] k = 8 -> Cube_new(U64(\h07061125, \h03022014), U64(\h00000000, \h0b0a1115), U64(\h07061904, \h03021800))
    [] k = 9 -> Cube_new(U64(\h04070605, \h03020100), U64(\h00000000, \h0b0a0908), U64(\h04070605, \h03020100))
    [] k = 10 -> Cube_new(U64(\h05040706, \h03020100), U64(\h00000000, \h0b0a0908), U64(\h05040706, \h03020100))
    [] k = 11 -> Cube_new(U64(\h06050407, \h03020100), U64(\h00000000, \h0b0a0908), U64(\h06050407, \h03020100))
    [] k = 12 -> Cube_new(U64(\h07152104, \h03261200), U64(\h00000000, \h0b060208), U64(\h07090504, \h030a0100))
    [] k = 13 -> Cube_new(U64(\h07010204, \h03050600), U64(\h00000000, \h0b090a08), U64(\h07020504, \h03060100))
    [] k = 14 -> Cube_new(U64(\h07122604, \h03211500), U64(\h00000000, \h0b020608), U64(\h070a0504, \h03090100))
    [] k = 15 -> Cube_new(U64(\h16220504, \h27130100), U64(\h00000000, \h17130908), U64(\h1a060504, \h1b020100))
    [] k = 16 -> Cube_new(U64(\h02030504, \h06070100), U64(\h00000000, \h0a0b0908), U64(\h03060504, \h07020100))
    [] k = 17 -> Cube_new(U64(\h13270504, \h22160100), U64(\h00000000, \h13170908), U64(\h1b060504, \h1a020100))

\* the table laid out (half turn, quarter turn, inverse quarter turn)
moves_half_first(k) ==
  moves_table(IF k % 3 = 0 THEN k + 1 ELSE IF k % 3 = 1 THEN k - 1 ELSE k)

\* entry k (0..17) of Cube::moves()
moves(k) == moves_table(k)

\* Cube::sym: the 48 symmetries
sym_table(k) ==
  CASE k = 0 -> Cube_new(U64(\h07060504, \h03020100), U64(\h00000000, \h0b0a0908), U64(\h07060504, \h03020100))
    [] k = 1 -> Cube_new(U64(\h06070405, \h02030001), U64(\h00000000, \h0a0b0809), U64(\h07040506, \h03000102))
    [] k = 2 -> Cube_new(U64(\h02030001, \h06070405), U64(\h00000000, \h0a0b0809), U64(\h03000102, \h07040506))
    [] k = 3 -> Cube_new(U64(\h03020100, \h07060504), U64(\h00000000, \h0b0a0908), U64(\h03020100, \h07060504))
    [] k = 4 -> Cube_new(U64(\h06050407, \h02010003), U64(\h00000000, \h1a19181b), U64(\h06050407, \h02010003))
    [] k = 5 -> Cube_new(U64(\h05060704, \h01020300), U64(\h00000000, \h191a1b18), U64(\h06070405, \h02030001))
    [] k = 6 -> Cube_new(U64(\h01020300, \h05060704), U64(\h00000000, \h191a1b18), U64(\h02030001, \h06070405))
    [] k = 7 -> Cube_new(U64(\h02010003, \h06050407), U64(\h00000000, \h1a19181b), U64(\h02010003, \h06050407))
    [] k = 8 -> Cube_new(U64(\h05040706, \h01000302), U64(\h00000000, \h09080b0a), U64(\h05040706, \h01000302))
    [] k = 9 -> Cube_new(U64(\h04050607, \h00010203), U64(\h00000000, \h08090a0b), U64(\h05060704, \h01020300))
    [] k = 10 -> Cube_new(U64(\h00010203, \h04050607), U64(\h00000000, \h08090a0b), U64(\h01020300, \h05060704))
    [] k = 11 -> Cube_new(U64(\h01000302, \h05040706), U64(\h00000000, \h09080b0a), U64(\h01000302, \h05040706))
    [] k = 12 -> Cube_new(U64(\h04070605, \h00030201), U64(\h00000000, \h181b1a19), U64(\h04070605, \h00030201))
    [] k = 13 -> Cube_new(U64(\h07040506, \h03000102), U64(\h00000000, \h1b18191a), U64(\h04050607, \h00010203))
    [] k = 14 -> Cube_new(U64(\h03000102, \h07040506), U64(\h00000000, \h1b18191a), U64(\h00010203, \h04050607))
    [] k = 15 -> Cube_new(U64(\h00030201, \h04070605), U64(\h00000000, \h181b1a19), U64(\h00030201, \h04070605))
    [] k = 16 -> Cube_new(U64(\h12261723, \h21152410), U64(\h00000000, \h12161410), U64(\h0a170b13, \h09150811))
    [] k = 17 -> Cube_new(U64(\h26122317, \h15211024), U64(\h00000000, \h16121014), U64(\h0a130b17, \h09110815))
    [] k = 18 -> Cube_new(U64(\h15211024, \h26122317), U64(\h00000000, \h16121014), U64(\h09110815, \h0a130b17))
    [] k = 19 -> Cube_new(U64(\h21152410, \h12261723), U64(\h00000000, \h12161410), U64(\h09150811, \h0a170b13))
    [] k = 20 -> Cube_new(U64(\h26172312, \h15241021), U64(\h00000000, \h06040002), U64(\h170b130a, \h15081109))
    [] k = 21 -> Cube_new(U64(\h17261223, \h24152110), U64(\h00000000, \h04060200), U64(\h170a130b, \h15091108))
    [] k = 22 -> Cube_new(U64(\h24152110, \h17261223), U64(\h00000000, \h04060200), U64(\h15091108, \h170a130b))
    [] k = 23 -> Cube_new(U64(\h15241021, \h26172312), U64(\h00000000, \h06040002), U64(\h15081109, \h170b130a))
    [] k = 24 -> Cube_new(U64(\h17231226, \h24102115), U64(\h00000000, \h14101216), U64(\h0b130a17, \h08110915))
    [] k = 25 -> Cube_new(U64(\h23172612, \h10241521), U64(\h00000000, \h10141612), U64(\h0b170a13, \h08150911))
    [] k = 26 -> Cube_new(U64(\h10241521, \h23172612), U64(\h00000000, \h10141612), U64(\h08150911, \h0b170a13))
    [] k = 27 -> Cube_new(U64(\h24102115, \h17231226), U64(\h00000000, \h14101216), U64(\h08110915, \h0b130a17))
    [] k = 28 -> Cube_new(U64(\h23122617, \h10211524), U64(\h00000000, \h00020604), U64(\h130a170b, \h11091508))
    [] k = 29 -> Cube_new(U64(\h12231726, \h21102415), U64(\h00000000, \h02000406), U64(\h130b170a, \h11081509))
    [] k = 30 -> Cube_new(U64(\h21102415, \h12231726), U64(\h00000000, \h02000406), U64(\h11081509, \h130b170a))
    [] k = 31 -> Cube_new(U64(\h10211524, \h23122617), U64(\h00000000, \h00020604), U64(\h11091508, \h130a170b))
    [] k = 32 -> Cube_new(U64(\h25162211, \h14271320), U64(\h00000000, \h05070301), U64(\h161a1219, \h141b1018))
    [] k = 33 -> Cube_new(U64(\h16251122, \h27142013), U64(\h00000000, \h07050103), U64(\h1619121a, \h1418101b))
    [] k = 34 -> Cube_new(U64(\h27142013, \h16251122), U64(\h00000000, \h07050103), U64(\h1418101b, \h1619121a))
    [] k = 35 -> Cube_new(U64(\h14271320, \h25162211), U64(\h00000000, \h05070301), U64(\h141b1018, \h161a1219))
    [] k = 36 -> Cube_new(U64(\h16221125, \h27132014), U64(\h00000000, \h17131115), U64(\h1a121916, \h1b101814))
    [] k = 37 -> Cube_new(U64(\h22162511, \h13271420), U64(\h00000000, \h13171511), U64(\h1a161912, \h1b141810))
    [] k = 38 -> Cube_new(U64(\h13271420, \h22162511), U64(\h00000000, \h13171511), U64(\h1b141810, \h1a161912))
    [] k = 39 -> Cube_new(U64(\h27132014, \h16221125), U64(\h00000000, \h17131115), U64(\h1b101814, \h1a121916))
    [] k = 40 -> Cube_new(U64(\h22112516, \h13201427), U64(\h00000000, \h03010507), U64(\h1219161a, \h1018141b))
    [] k = 41 -> Cube_new(U64(\h11221625, \h20132714), U64(\h00000000, \h01030705), U64(\h121a1619, \h101b1418))
    [] k = 42 -> Cube_new(U64(\h20132714, \h11221625), U64(\h00000000, \h01030705), U64(\h101b1418, \h121a1619))
    [] k = 43 -> Cube_new(U64(\h13201427, \h22112516), U64(\h00000000, \h03010507), U64(\h1018141b, \h1219161a))
    [] k = 44 -> Cube_new(U64(\h11251622, \h20142713), U64(\h00000000, \h11151713), U64(\h19161a12, \h18141b10))
    [] k = 45 -> Cube_new(U64(\h25112216, \h14201327), U64(\h00000000, \h15111317), U64(\h19121a16, \h18101b14))
    [] k = 46 -> Cube_new(U64(\h14201327, \h25112216), U64(\h00000000, \h15111317), U64(\h18101b14, \h19121a16))
    [] k = 47 -> Cube_new(U64(\h20142713, \h11251622), U64(\h00000000, \h11151713), U64(\h18141b10, \h19161a12))

\* entry k (0..47) of Cube::sym()
sym(k) == sym_table(k)

(*--------------------- symmetry generators (cube.rs) ---------------------*)

\* Cube::S_URF3: 120-degree clockwise rotation on the URF-DBL axis
S_URF3 == Cube_new(U64(\h12261723, \h21152410), U64(\h00000000, \h12161410), U64(\h0a170b13, \h09150811))

\* Cube::S_URF3i: documented as the inverse of S_URF3
S_URF3i == Cube_new(U64(\h02030001, \h06070405), U64(\h00000000, \h0a0b0809), U64(\h03000102, \h07040506))

\* Cube::S_U4: 90-degree clockwise rotation on the U-D axis
S_U4 == Cube_new(U64(\h06050407, \h02010003), U64(\h00000000, \h1a19181b), U64(\h06050407, \h02010003))

\* Cube::S_LR2: reflection left to right
S_LR2 == Cube_new(U64(\h06070405, \h02030001), U64(\h00000000, \h0a0b0809), U64(\h07040506, \h03000102))

\* Cube::S_F2: 180-degree rotation on the F-B axis
S_F2 == Cube_new(U64(\h02030001, \h06070405), U64(\h00000000, \h0a0b0809), U64(\h03000102, \h07040506))

\* Cube::M_U: 90-degree clockwise twist of the U face
M_U == Cube_new(U64(\h07060504, \h02010003), U64(\h00000000, \h0b0a0908), U64(\h07060504, \h02010003))

\* Cube::sym_inv: the inverse symmetry map
sym_inv_table ==
  << 0, 1, 2, 3, 12, 5, 6, 15, 8, 9, 10, 11, 4, 13, 14, 7, 32, 35, 42,
     41, 20, 21, 28, 29, 34, 33, 40, 43, 22, 23, 30, 31, 16, 25, 24, 17,
     38, 37, 36, 39, 26, 19, 18, 27, 44, 47, 46, 45 >>

\* every symmetry taken for its own inverse
sym_inv_self(s) == s

\* entry s (0..47) of Cube::sym_inv()
sym_inv(s) == sym_inv_table[s + 1]

\* Cube::move_sym_6
move_sym_6_table ==
  << << 0, 6, 3, 2, 8, 5, 0, 0 >>,
     << 1, 7, 4, 1, 7, 4, 0, 0 >>,
     << 2, 8, 5, 0, 6, 3, 0, 0 >>,
     << 3, 0, 6, 5, 2, 8, 0, 0 >>,
     << 4, 1, 7, 4, 1, 7, 0, 0 >>,
     << 5, 2, 8, 3, 0, 6, 0, 0 >>,
     << 6, 3, 0, 8, 5, 2, 0, 0 >>,
     << 7, 4, 1, 7, 4, 1, 0, 0 >>,
     << 8, 5, 2, 6, 3, 0, 0, 0 >>,
     << 9, 15, 12, 11, 17, 14, 0, 0 >>,
     << 10, 16, 13, 10, 16, 13, 0, 0 >>,
     << 11, 17, 14, 9, 15, 12, 0, 0 >>,
     << 12, 9, 15, 14, 11, 17, 0, 0 >>,
     << 13, 10, 16, 13, 10, 16, 0, 0 >>,
     << 14, 11, 17, 12, 9, 15, 0, 0 >>,
     << 15, 12, 9, 17, 14, 11, 0, 0 >>,
     << 16, 13, 10, 16, 13, 10, 0, 0 >>,
     << 17, 14, 11, 15, 12, 9, 0, 0 >> >>

\* the table read with columns 1 and 2 exchanged
move_sym_6_exchanged(m, c) ==
  move_sym_6_table[m + 1][(IF c = 1 THEN 2 ELSE IF c = 2 THEN 1 ELSE c) + 1]

\* entry [m][c] of Cube::move_sym_6(), m in 0..17, c in 0..7
move_sym_6(m, c) == move_sym_6_table[m + 1][c + 1]

(*------------------- unrank_corner_orient (avx2.rs) ----------------------*)

\* The 16-bit element k (0..15) of a 256-bit vector.
Word16(v, k) == v[2 * k] + 256 * v[2 * k + 1]

\* bit j (0..31) of the 32-bit element k (0..7) of a 256-bit vector
DBit(v, k, j) == Bit(v[4 * k + (j \div 8)], j % 8)

\* The value of the 32-bit element k, for elements below 2^31.
Dword(v, k) ==
  v[4 * k] + 256 * v[4 * k + 1] + 65536 * v[4 * k + 2] + 16777216 * v[4 * k + 3]

\* The bytes of the i32 literal w, least significant first (two's complement).
BytesI32(w) ==
  IF w >= 0 THEN Bytes32(w)
  ELSE LET m == w + 2147483647 + 1
       IN  Vec([k \in 0..3 |-> IF k = 3 THEN 128 + Bytes32(m)[3] ELSE Bytes32(m)[k]])

\* _mm256_set_epi32(e7, .., e0)
mm256_set_epi32(e7, e6, e5, e4, e3, e2, e1, e0) ==
  LET e == <<e0, e1, e2, e3, e4, e5, e6, e7>>
  IN  Vec([i \in Lanes256 |-> BytesI32(e[(i \div 4) + 1])[i % 4]])

\* _mm256_set1_epi32(w)
mm256_set1_epi32(w) == Vec([i \in Lanes256 |-> BytesI32(w)[i % 4]])

\* The high 16 bits of the 32-bit product of two unsigned 16-bit numbers.
MulHi16(p, q) == (p * (q \div 256) + (p * (q % 256)) \div 256) \div 256

\* _mm256_mulhi_epu16(a, b)
mm256_mulhi_epu16(a, b) ==
  Vec([i \in Lanes256 |->
     LET hi == MulHi16(Word16(a, i \div 2), Word16(b, i \div 2))
     IN  IF i % 2 = 0 THEN hi % 256 ELSE hi \div 256])

\* _mm256_srlv_epi32(v, count): each 32-bit element shifted right, zeros in,
\* by the count in the same element of count (32 or more gives zero).
mm256_srlv_epi32(v, count) ==
  Vec([i \in Lanes256 |->
     LET k == i \div 4
         s == Dword(count, k)
         b(j) == IF 8 * (i % 4) + j + s < 32 THEN DBit(v, k, 8 * (i % 4) + j + s) ELSE 0
     IN  ByteOfBits(b)])

\* _mm256_slli_epi32(v, s): each 32-bit element shifted left by s bits
mm256_slli_epi32(v, s) ==
  Vec([i \in Lanes256 |->
     LET k == i \div 4
         b(j) == IF 8 * (i % 4) + j >= s /\ s < 32
                 THEN DBit(v, k, 8 * (i % 4) + j - s) ELSE 0
     IN  ByteOfBits(b)])

\* _mm256_blend_epi32(a, b, imm): element k from b when bit k of imm is set
mm256_blend_epi32(a, b, imm) ==
  Vec([i \in Lanes256 |-> IF Bit(imm, i \div 4) = 1 THEN b[i] ELSE a[i]])

\* carry into byte i of the 32-bit element sums a + b
RECURSIVE Carry32(_, _, _)
Carry32(a, b, i) ==
  IF i % 4 = 0 THEN 0 ELSE (a[i - 1] + b[i - 1] + Carry32(a, b, i - 1)) \div 256

\* _mm256_add_epi32(a, b)
mm256_add_epi32(a, b) ==
  Vec([i \in Lanes256 |-> (a[i] + b[i] + Carry32(a, b, i)) % 256])

\* borrow out of byte i - 1 of the 32-bit element differences a - b
RECURSIVE Borrow32(_, _, _)
Borrow32(a, b, i) ==
  IF i % 4 = 0 THEN 0
  ELSE IF a[i - 1] - b[i - 1] - Borrow32(a, b, i - 1) < 0 THEN 1 ELSE 0

\* _mm256_sub_epi32(a, b)
mm256_sub_epi32(a, b) ==
  Vec([i \in Lanes256 |-> (a[i] - b[i] - Borrow32(a, b, i) + 256) % 256])

\* The value of a 64-bit scalar used as a shift count is in range when it
\* is below 64; a build with overflow checks panics otherwise and a build
\* without them shifts by the count's low six bits.
ShiftInRange64(s) == s[0] < 64 /\ \A k \in 1..7 : s[k] = 0

vpow3_reciprocal == mm256_set_epi32(1439, 4316, 12946, 38837, 7282, 21846, 0, 0)

vshift == mm256_set_epi32(4, 4, 4, 4, 0, 0, 0, 0)

\* The table of last-corner orientations, two bits per entry.
last_corner_table == U64(\h49249249, \h24924924)

\* The digits of unrank_corner_orient before the last corner is inserted:
\* co, one orientation digit per byte, byte 0 still empty.
unrank_digits(cori) ==
  LET vcorient == mm256_set1_epi32(cori)
      vco0 == mm256_mulhi_epu16(vcorient, vpow3_reciprocal)
      vco1 == mm256_srlv_epi32(vco0, vshift)
      vco2 == mm256_blend_epi32(vco1, vcorient, 2)
      div3 == mm256_mulhi_epu16(vco2, mm256_set1_epi32(21846))
      vco3 == mm256_add_epi32(vco2, div3)
      vco4 == mm256_sub_epi32(vco3, mm256_slli_epi32(div3, 2))
      vco5 == mm256_shuffle_epi8(vco4,
                mm256_set_epi32(-1, -1, \h0c080400, -1, -1, -1, -1, \h0c080400))
  IN  Or64(mm256_extract_epi64(vco5, 2), mm256_extract_epi64(vco5, 0))

\* The shift count of the table lookup: sum after the three folding steps.
unrank_sum(co) ==
  LET sum0 == Add64(co, Shr64(co, 32))
      sum1 == Add64(sum0, Shr64(sum0, 16))
  IN  Add64(sum1, Shr64(sum1, 8))

\* unrank_corner_orient(cori) in a build with (checked = TRUE) or without
\* overflow checks: the i64 returned, or a panic.
unrank_corner_orient(cori, checked) ==
  LET co  == unrank_digits(cori)
      sum == unrank_sum(co)
      ins == And64(Shr64(last_corner_table, sum[0] % 64), U64(0, 3))
  IN  IF checked /\ ~ShiftInRange64(sum)
      THEN [panic |-> TRUE, val |-> Zero64]
      ELSE [panic |-> FALSE, val |-> Shl64(Or64(co, ins), 4)]

(*----------------------- corner_orient (sse.rs) --------------------------*)

Lanes128 == 0..15

\* The place values of corner_orient: _mm_set_epi16(729, 243, 81, 27, 9, 3, 1, 0),
\* element 0 first.
place_values == <<0, 1, 3, 9, 27, 81, 243, 729>>

\* _mm_unpacklo_epi8(a, b): the low eight bytes of a and b interleaved
mm_unpacklo_epi8(a, b) ==
  Vec([i \in Lanes128 |-> IF i % 2 = 0 THEN a[i \div 2] ELSE b[i \div 2]])

\* _mm_madd_epi16(a, w): the signed 16-bit elements of a times the place
\* values w, adjacent products added; element k of the four 32-bit sums.
\* The elements of a are bytes widened with zeros, so no product is negative.
mm_madd_epi16(a, w, k) ==
  (a[4 * k] + 256 * a[4 * k + 1]) * w[2 * k + 1]
  + (a[4 * k + 2] + 256 * a[4 * k + 3]) * w[2 * k + 2]

\* _mm_extract_epi64(v, k) of the vector of four 32-bit sums d
mm_extract_epi64_of(d, k) ==
  Vec([j \in 0..7 |-> IF j < 4 THEN Bytes32(d[2 * k + 1])[j] ELSE Bytes32(d[2 * k + 2])[j - 4]])

\* r < u32::max_value() as i64, for an i64 r
BelowU32Max(r) ==
  \/ r[7] >= 128
  \/ /\ \A k \in 4..7 : r[k] = 0
     /\ \E k \in 0..3 : r[k] # 255

\* The 64-bit accumulator r of corner_orient at its debug_assert.
corner_orient_r(v) ==
  LET vorient0 == Vec([i \in Lanes128 |-> BitAnd(v[i], \h30)])
      vorient1 == mm_unpacklo_epi8(vorient0, Vec([i \in Lanes128 |-> 0]))
      d  == Vec([k \in 1..4 |-> mm_madd_epi16(vorient1, place_values, k - 1)])
      r0 == Add64(mm_extract_epi64_of(d, 0), mm_extract_epi64_of(d, 1))
      r1 == Add64(r0, Shr64(r0, 32))
  IN  Shr64(r1, 4)

\* sse::corner_orient(v) in a build with (checked = TRUE) or without debug
\* assertions: the u32 of the Cori returned (its four bytes), or a panic.
corner_orient(v, checked) ==
  LET r == corner_orient_r(v)
  IN  IF checked /\ ~BelowU32Max(r)
      THEN [panic |-> TRUE, val |-> Bytes32(0)]
      ELSE [panic |-> FALSE, val |-> Vec([k \in 0..3 |-> r[k]])]

\* Cube::corner_lane_ref: the high 128-bit lane
corner_lane_ref(c) == Vec([i \in Lanes128 |-> c[16 + i]])

\* Cube::corner_orient
Cube_corner_orient(c, checked) == corner_orient(corner_lane_ref(c), checked)

\* *c.corners_64_mut() = co: the corner bytes of c replaced
corners_64_store(c, co) ==
  Vec([i \in Lanes256 |-> IF i \in 16..23 THEN co[i - 16] ELSE c[i]])

(*------------------------ set_edge_perm (cube.rs) ------------------------*)

FC == <<39916800, 3628800, 362880, 40320, 5040, 720, 120, 24, 6, 2, 1>>

\* -1i64 as u64
AllOnes64 == Vec([k \in 0..7 |-> 255])

Xor64(a, b) == Vec([k \in 0..7 |-> BitXor(a[k], b[k])])

\* _bextr_u64(a, start, 4) as u8
bextr4(a, start) ==
  Bit64(a, start) + 2 * Bit64(a, start + 1)
  + 4 * Bit64(a, start + 2) + 8 * Bit64(a, start + 3)

\* u64 >> s for 0 <= s < 64: zeros shifted in
LShr64(a, s) ==
  Vec([k \in 0..7 |->
     LET b(j) == IF 8 * k + j + s < 64 THEN Bit64(a, 8 * k + j + s) ELSE 0
     IN  ByteOfBits(b)])

\* the table left as it is: the entry taken is not removed
table_unremoved(table, shift) == table

\* table ^= (table ^ (table >> 4)) & ((-1i64 as u64) << shift)
table_remove(table, shift) ==
  Xor64(table, And64(Xor64(table, LShr64(table, 4)), Shl64(AllOnes64, shift)))

\* the shift of step i (0..10) of set_edge_perm
edge_shift(eperm, i) ==
  IF i = 0 THEN (eperm \div FC[1]) * 4
  ELSE ((eperm \div FC[i + 1]) % (12 - i)) * 4

\* The scratch tables of set_edge_perm: element i + 1 is the table before
\* step i, for the steps 0 .. last.
RECURSIVE edge_tables(_, _)
edge_tables(eperm, last) ==
  IF last = 0 THEN << U64(\h0000ba98, \h76543210) >>
  ELSE LET prev == edge_tables(eperm, last - 1)
       IN  Append(prev, table_remove(prev[last], edge_shift(eperm, last - 1)))

\* Cube::set_edge_perm: edge bytes 0..11 are rewritten, the rest is kept
set_edge_perm(c, eperm) ==
  LET tables == edge_tables(eperm, 11)
  IN  Vec([i \in Lanes256 |->
             IF i <= 10 THEN bextr4(tables[i + 1], edge_shift(eperm, i))
             ELSE IF i = 11 THEN tables[12][0]
             ELSE c[i]])

(*--------------------------- the state ----------------------------------*)

\* The library keeps no state of its own: every operation is a pure function
\* of the cubes and coordinates its caller holds.  The state is the caller's:
\* the cubes x, y, z it holds, the coordinates and table indices it picked,
\* the results it got back and where it stands (pc).
VARIABLES
  x,        \* the cube operated on
  y, z,     \* further cubes (operands of compose; the cube before a setter)
  left,     \* compose(compose(x, y), z), once computed
  right,    \* compose(x, compose(y, z)), once computed
  ops,      \* how many operations were applied to x
  pc,       \* the caller's position
  checked,  \* TRUE in a build with overflow checks and debug assertions
  cori,     \* a corner orientation coordinate
  co,       \* what unrank_corner_orient returned
  rank,     \* what corner_orient returned
  eperm,    \* an edge permutation coordinate
  i, j,     \* indices into the symmetry table
  m,        \* an index into the move table
  turns     \* how many times moves()[m] was applied

vars == <<x, y, z, left, right, ops, pc, checked, cori, co, rank, eperm, i, j, m, turns>>

NoResult == [panic |-> FALSE, val |-> Zero64]

\* the variables a specification does not use keep these values
IdleCubes == y = identity /\ z = identity /\ left = identity /\ right = identity
IdleCodec == checked = FALSE /\ cori = 0 /\ co = NoResult /\ rank = NoResult /\ eperm = 0
IdleTables == i = 0 /\ j = 0 /\ m = 0 /\ turns = 0

(*----------------- Spec: compose, invert and parity ----------------------*)

\* how many operations the caller applies to a cube
MaxOps == 1

\* The caller starts from an entry of the symmetry table (entry 0 is the
\* identity) and applies moves and inversions to it.
Init ==
  /\ x \in {sym(k) : k \in 0..47}
  /\ ops = 0 /\ pc = "algebra"
  /\ IdleCubes /\ IdleCodec /\ IdleTables

\* c = c * Cube::moves()[k]
ComposeMove(k) ==
  /\ ops < MaxOps
  /\ x' = compose(x, moves(k))
  /\ ops' = ops + 1
  /\ UNCHANGED <<y, z, left, right, pc, checked, cori, co, rank, eperm, i, j, m, turns>>

\* c = !c
Invert ==
  /\ ops < MaxOps
  /\ x' = invert(x)
  /\ ops' = ops + 1
  /\ UNCHANGED <<y, z, left, right, pc, checked, cori, co, rank, eperm, i, j, m, turns>>

Next == (\E k \in 0..17 : ComposeMove(k)) \/ Invert

Spec == Init /\ [][Next]_vars

(*----------------- SpecAssoc: compose on three cubes ---------------------*)

\* The caller holds a move, a symmetry and a quarter turn, in any rotation
\* of that order, and composes them both ways.
InitAssoc ==
  /\ x \in {moves(k) : k \in 0..17}
  /\ y \in {sym(k) : k \in 0..47}
  /\ z \in {moves(3 * k) : k \in 0..5}
  /\ left = identity /\ right = identity
  /\ ops = 0 /\ pc = "operands"
  /\ IdleCodec /\ IdleTables

\* the three operands change places
RotateOperands ==
  /\ pc = "operands" /\ ops < 2
  /\ x' = y /\ y' = z /\ z' = x
  /\ ops' = ops + 1
  /\ UNCHANGED <<left, right, pc, checked, cori, co, rank, eperm, i, j, m, turns>>

\* (x * y) * z and x * (y * z)
Associate ==
  /\ pc = "operands"
  /\ left' = compose(compose(x, y), z)
  /\ right' = compose(x, compose(y, z))
  /\ pc' = "composed"
  /\ UNCHANGED <<x, y, z, ops, checked, cori, co, rank, eperm, i, j, m, turns>>

NextAssoc == RotateOperands \/ Associate

SpecAssoc == InitAssoc /\ [][NextAssoc]_vars

(*----------------- SpecCodec: the corner orientation codec ---------------*)

\* the corner orientation coordinates: seven free digits in base 3
NumCori == 3 * 729

InitCodec ==
  /\ checked \in BOOLEAN
  /\ cori \in 0..(NumCori - 1)
  /\ x = identity
  /\ co = NoResult /\ rank = NoResult /\ eperm = 0
  /\ ops = 0 /\ pc = "start"
  /\ IdleCubes /\ IdleTables

\* let co = avx2::unrank_corner_orient(Cori(cori))
Unrank ==
  /\ pc = "start"
  /\ co' = unrank_corner_orient(cori, checked)
  /\ pc' = IF co'.panic THEN "panicked" ELSE "unranked"
  /\ UNCHANGED <<x, y, z, left, right, ops, checked, cori, rank, eperm, i, j, m, turns>>

\* *c.corners_64_mut() = co
StoreCorners ==
  /\ pc = "unranked"
  /\ x' = corners_64_store(x, co.val)
  /\ pc' = "stored"
  /\ UNCHANGED <<y, z, left, right, ops, checked, cori, co, rank, eperm, i, j, m, turns>>

\* let rank = c.corner_orient()
RankCorners ==
  /\ pc = "stored"
  /\ rank' = Cube_corner_orient(x, checked)
  /\ pc' = IF rank'.panic THEN "panicked" ELSE "ranked"
  /\ UNCHANGED <<x, y, z, left, right, ops, checked, cori, co, eperm, i, j, m, turns>>

NextCodec == Unrank \/ StoreCorners \/ RankCorners

SpecCodec == InitCodec /\ [][NextCodec]_vars

(*----------------- SpecEperm: the edge permutation setter ----------------*)

\* the last edge permutation coordinate, 12! - 1
MaxEperm == 479001599

\* the coordinates 0 .. MaxLowEperm and MaxEperm - MaxLowEperm .. MaxEperm
\* are tried
MaxLowEperm == 150

\* the coordinate whose factorial digits are d[1] .. d[11], d[k] <= 12 - k
RECURSIVE EpermOfDigits(_, _)
EpermOfDigits(d, k) ==
  IF k = 0 THEN 0 ELSE d[k] * FC[k] + EpermOfDigits(d, k - 1)

\* The coordinates tried: both ends of the range, and every coordinate each
\* of whose factorial digits is either 0 or the largest its place allows.
EpermInputs ==
  (0..MaxLowEperm) \cup ((MaxEperm - MaxLowEperm)..MaxEperm)
  \cup { EpermOfDigits([k \in 1..11 |-> IF k \in S THEN 12 - k ELSE 0], 11) :
           S \in SUBSET (1..11) }

\* The cube set is the identity or the F move (which has flipped edges).
InitEperm ==
  /\ x \in {identity, moves(6)}
  /\ y = x
  /\ eperm \in EpermInputs
  /\ z = identity /\ left = identity /\ right = identity
  /\ checked = FALSE /\ cori = 0 /\ co = NoResult /\ rank = NoResult
  /\ ops = 0 /\ pc = "start"
  /\ IdleTables

\* c.set_edge_perm(Eperm(eperm))
SetEdgePerm ==
  /\ pc = "start"
  /\ x' = set_edge_perm(x, eperm)
  /\ pc' = "set"
  /\ UNCHANGED <<y, z, left, right, ops, checked, cori, co, rank, eperm, i, j, m, turns>>

NextEperm == SetEdgePerm

SpecEperm == InitEperm /\ [][NextEperm]_vars

(*----------------- SpecSym: the symmetry table ---------------------------*)

InitSym ==
  /\ i \in 0..47 /\ j \in 0..47
  /\ x = identity
  /\ m = 0 /\ turns = 0
  /\ ops = 0 /\ pc = "start"
  /\ IdleCubes /\ IdleCodec

\* Cube::sym()[i].compose(&Cube::sym()[j])
SymCompose ==
  /\ pc = "start"
  /\ x' = compose(sym(i), sym(j))
  /\ pc' = "composed"
  /\ UNCHANGED <<y, z, left, right, ops, checked, cori, co, rank, eperm, i, j, m, turns>>

\* Cube::sym()[i].compose_mirror(&Cube::sym()[j])
SymComposeMirror ==
  /\ pc = "start"
  /\ x' = compose_mirror(sym(i), sym(j))
  /\ pc' = "mirrored"
  /\ UNCHANGED <<y, z, left, right, ops, checked, cori, co, rank, eperm, i, j, m, turns>>

NextSym == SymCompose \/ SymComposeMirror

SpecSym == InitSym /\ [][NextSym]_vars

(*----------------- SpecMoves: the move tables ----------------------------*)

\* how many times toplevel applies a move
MaxTurns == 4

\* moves()[m] conjugated by sym()[k]: s * m * !s
Conjugate(k, mv) == compose(compose(sym(k), moves(mv)), invert(sym(k)))

InitMoves ==
  /\ m \in 0..17 /\ i \in 0..47
  /\ j = 0 /\ turns = 0
  /\ x = identity
  /\ ops = 0 /\ pc = "start"
  /\ IdleCubes /\ IdleCodec

\* c = c * Cube::moves()[m]
Turn ==
  /\ pc \in {"start", "turning"}
  /\ turns < MaxTurns
  /\ x' = compose(x, moves(m))
  /\ turns' = turns + 1
  /\ pc' = "turning"
  /\ UNCHANGED <<y, z, left, right, ops, checked, cori, co, rank, eperm, i, j, m>>

\* after one quarter turn, c = c * Cube::moves()[m + 2]
TurnBack ==
  /\ pc = "turning" /\ turns = 1 /\ m % 3 = 0
  /\ x' = compose(x, moves(m + 2))
  /\ pc' = "undone"
  /\ UNCHANGED <<y, z, left, right, ops, checked, cori, co, rank, eperm, i, j, m, turns>>

\* c = sym()[i] * moves()[m] * !sym()[i]
ConjugateMove ==
  /\ pc = "start"
  /\ x' = Conjugate(i, m)
  /\ pc' = "conjugated"
  /\ UNCHANGED <<y, z, left, right, ops, checked, cori, co, rank, eperm, i, j, m, turns>>

NextMoves == Turn \/ TurnBack \/ ConjugateMove

SpecMoves == InitMoves /\ [][NextMoves]_vars

(*----------------- SpecGen: the symmetry generators ----------------------*)

\* how many times the caller applies S_URF3
MaxRotations == 3

\* The caller starts from the identity, a symmetry or a move (kept in y).
InitGen ==
  /\ x \in {identity} \cup {sym(k) : k \in 0..47} \cup {moves(k) : k \in 0..17}
  /\ y = x
  /\ z = identity /\ left = identity /\ right = identity
  /\ ops = 0 /\ pc = "start"
  /\ IdleCodec /\ IdleTables

\* c = c * Cube::S_URF3()
RotateURF3 ==
  /\ pc \in {"start", "rotating", "rotated back"}
  /\ turns < MaxRotations
  /\ x' = compose(x, S_URF3)
  /\ turns' = turns + 1
  /\ pc' = IF pc = "rotated back" THEN "restored" ELSE "rotating"
  /\ UNCHANGED <<y, z, left, right, ops, checked, cori, co, rank, eperm, i, j, m>>

\* c = c * Cube::S_URF3i(), before or after one S_URF3
RotateURF3i ==
  /\ \/ pc = "start"
     \/ pc = "rotating" /\ turns = 1
  /\ x' = compose(x, S_URF3i)
  /\ ops' = ops + 1
  /\ pc' = IF pc = "start" THEN "rotated back" ELSE "restored"
  /\ UNCHANGED <<y, z, left, right, checked, cori, co, rank, eperm, i, j, m, turns>>

NextGen == RotateURF3 \/ RotateURF3i

SpecGen == InitGen /\ [][NextGen]_vars

(*----------------- SpecClosure: sequences of the algebra -----------------*)

\* how many operations of the algebra the caller chains
MaxChain == 1

\* the identity, the 18 moves and the 48 symmetries
TableCubes == {identity} \cup {moves(k) : k \in 0..17} \cup {sym(k) : k \in 0..47}

\* The other operand of an operation: any table cube for the first operation
\* of a chain, then the F' move (flipped edges, twisted corners) or the
\* reflection sym()[17].
Operands(n) == IF n = 0 THEN TableCubes ELSE {moves(8), sym(17)}

InitClosure ==
  /\ x \in TableCubes
  /\ ops = 0 /\ pc = "closure"
  /\ IdleCubes /\ IdleCodec /\ IdleTables

\* c = c.compose(&g)
ChainCompose(g) ==
  /\ pc = "closure" /\ ops < MaxChain
  /\ x' = compose(x, g)
  /\ ops' = ops + 1
  /\ UNCHANGED <<y, z, left, right, pc, checked, cori, co, rank, eperm, i, j, m, turns>>

\* c = g.compose(&c)
ChainComposeLeft(g) ==
  /\ pc = "closure" /\ ops < MaxChain
  /\ x' = compose(g, x)
  /\ ops' = ops + 1
  /\ UNCHANGED <<y, z, left, right, pc, checked, cori, co, rank, eperm, i, j, m, turns>>

\* c = c.compose_mirror(&g)
ChainComposeMirror(g) ==
  /\ pc = "closure" /\ ops < MaxChain
  /\ x' = compose_mirror(x, g)
  /\ ops' = ops + 1
  /\ UNCHANGED <<y, z, left, right, pc, checked, cori, co, rank, eperm, i, j, m, turns>>

\* c = g.compose_mirror(&c)
ChainComposeMirrorLeft(g) ==
  /\ pc = "closure" /\ ops < MaxChain
  /\ x' = compose_mirror(g, x)
  /\ ops' = ops + 1
  /\ UNCHANGED <<y, z, left, right, pc, checked, cori, co, rank, eperm, i, j, m, turns>>

\* c = c.invert()
ChainInvert ==
  /\ pc = "closure" /\ ops < MaxChain
  /\ x' = invert(x)
  /\ ops' = ops + 1
  /\ UNCHANGED <<y, z, left, right, pc, checked, cori, co, rank, eperm, i, j, m, turns>>

NextClosure ==
  \/ \E g \in Operands(ops) : ChainCompose(g)
  \/ \E g \in Operands(ops) : ChainComposeLeft(g)
  \/ \E g \in Operands(ops) : ChainComposeMirror(g)
  \/ \E g \in Operands(ops) : ChainComposeMirrorLeft(g)
  \/ ChainInvert

SpecClosure == InitClosure /\ [][NextClosure]_vars

(*----------------- SpecOrient: corner_orient on any orientations ---------*)

\* the solved cube with orientation o[k] (0..2) given to corner k
OrientedCube(o) ==
  Vec([k \in Lanes256 |->
         IF k \in 16..23 THEN identity[k] + 16 * o[k - 16] ELSE identity[k]])

\* Every assignment of orientations to the eight corners, in a build with
\* or without debug assertions.
InitOrient ==
  /\ x \in {OrientedCube(o) : o \in [0..7 -> 0..2]}
  /\ checked \in BOOLEAN
  /\ cori = 0 /\ co = NoResult /\ rank = NoResult /\ eperm = 0
  /\ ops = 0 /\ pc = "start"
  /\ IdleCubes /\ IdleTables

\* let rank = c.corner_orient()
RankOriented ==
  /\ pc = "start"
  /\ rank' = Cube_corner_orient(x, checked)
  /\ pc' = IF rank'.panic THEN "panicked" ELSE "ranked"
  /\ UNCHANGED <<x, y, z, left, right, ops, checked, cori, co, eperm, i, j, m, turns>>

NextOrient == RankOriented

SpecOrient == InitOrient /\ [][NextOrient]_vars
(*------------------------ well-formed cubes ------------------------------*)

\* the orientation field of an edge byte (bit 4) or a corner byte (bits 4-5)
Orient(b) == b \div 16

\* Edge bytes are ---OEEEE and corner bytes --OO-CCC; the identities of each
\* lane are a permutation, and the unused bytes hold the filler of literal().
WellFormed(c) ==
  /\ \A k \in 0..11 : c[k] % 16 <= 11 /\ Orient(c[k]) <= 1
  /\ \A k \in 0..11 : \E k2 \in 0..11 : c[k2] % 16 = k
  /\ \A k \in 16..23 : c[k] % 16 <= 7 /\ Orient(c[k]) <= 2
  /\ \A k \in 0..7 : \E k2 \in 16..23 : c[k2] % 16 = k
  /\ \A k \in (12..15) \cup (24..31) : c[k] = identity[k]

HasFlip(c) == \E k \in 0..11 : Orient(c[k]) = 1

HasTwist(c) == \E k \in 16..23 : Orient(c[k]) \in {1, 2}

(*------------------------------ claims -----------------------------------*)

\* C1: for every well-formed cube x, compose(x, invert(x)) and
\* compose(invert(x), x) both equal the identity state on all 32 bytes.
C1_InverseLaw ==
  pc = "algebra" =>
    LET ix == invert(x)
    IN  WellFormed(x) /\ compose(x, ix) = identity /\ compose(ix, x) = identity

\* C1 is exercised: a move was applied to a symmetry with twisted corners and
\* flipped edges, and the inverse differs from the cube itself.
C1_Witness ==
  pc = "algebra" /\ ops = 1 /\ HasFlip(x) /\ HasTwist(x) /\ invert(x) # x
  /\ compose(x, invert(x)) = identity

\* C2: plain compose is associative, byte for byte.
C2_Associative == pc = "composed" => left = right

\* C2 is exercised: all three operands twist corners, one flips edges, and
\* the product twists corners too.
C2_Witness ==
  /\ pc = "composed" /\ left = right
  /\ HasTwist(x) /\ HasTwist(y) /\ HasTwist(z) /\ HasTwist(left)
  /\ HasFlip(x) /\ HasFlip(y) /\ HasFlip(z)

\* The 20 identities of a cube as one permutation of 0..19: the 12 edge
\* identities, then the 8 corner identities after them.
Perm20(c) == [k \in 0..19 |-> IF k < 12 THEN c[k] % 16 ELSE 12 + (c[k + 4] % 16)]

\* the number of inversions of the permutation p of 0..19
Inversions(p) == Cardinality({pr \in (0..19) \X (0..19) : pr[1] < pr[2] /\ p[pr[1]] > p[pr[2]]})

\* a cube with its orientation bits cleared
ClearOrient(c) == Vec([k \in Lanes256 |-> c[k] % 16])

\* C3: parity(x) is true exactly when the 20-element permutation has an odd
\* number of inversions; the orientation bits do not change it, and
\* parity(identity) is false.
C3_Parity ==
  pc = "algebra" =>
    /\ parity(x) = (Inversions(Perm20(x)) % 2 = 1)
    /\ parity(x) = parity(ClearOrient(x))
    /\ (x = identity => ~parity(x))

\* C3 is exercised: an odd cube with flipped edges and twisted corners, after
\* an operation.
C3_Witness ==
  pc = "algebra" /\ ops = 1 /\ parity(x) /\ HasFlip(x) /\ HasTwist(x)
  /\ Inversions(Perm20(x)) % 2 = 1

\* the orientation fields of the eight corner bytes of the i64 v
CornerFields(v) == [k \in 0..7 |-> Orient(v[k])]

\* the sum of the seven digits unrank_corner_orient extracts (bytes 1..7)
DigitSum(d) == d[1] + d[2] + d[3] + d[4] + d[5] + d[6] + d[7]

\* C4: for every rank n in 0..2186, storing unrank_corner_orient(n) in the
\* corner lane and calling corner_orient returns exactly n: neither call
\* fails, and the rank read back is the rank put in.
C4_RoundTrip ==
  /\ pc # "panicked"
  /\ (pc = "ranked" => rank.val = Bytes32(cori))

\* Without overflow checks and debug assertions the round trip of C4 is
\* exact on the whole domain; with them only rank 0 survives both calls.
C4_RoundTripByBuild ==
  /\ (pc = "ranked" => rank.val = Bytes32(cori))
  /\ (~checked => pc # "panicked")
  /\ (checked /\ cori # 0 => pc \in {"start", "panicked"})

\* C10: for every rank n in 0..2186 the constant 0x4924924924924924 is
\* shifted by a value equal to the sum of the seven extracted digits, an
\* index in 0..14, and the eight orientation fields returned are each in
\* {0,1,2} and sum to 0 mod 3.
C10_TableIndex ==
  pc # "start" =>
    LET d == unrank_digits(cori)
        s == unrank_sum(d)
        f == CornerFields(co.val)
    IN  /\ ~co.panic
        /\ s[0] = DigitSum(d) /\ s[0] <= 14
        /\ \A k \in 1..7 : s[k] = 0
        /\ \A k \in 0..7 : f[k] \in {0, 1, 2}
        /\ (f[0] + DigitSum(f)) % 3 = 0

\* What does hold of the shift of C10: only the low byte of the shift count
\* is the digit sum; the count itself is 64 or more for every rank but 0,
\* and where the call returns, the fields are in range with sum 0 mod 3.
C10_LowByteOnly ==
  pc # "start" =>
    LET d == unrank_digits(cori)
        s == unrank_sum(d)
        f == CornerFields(co.val)
    IN  /\ s[0] = DigitSum(d) /\ s[0] <= 14
        /\ (cori # 0 => ~ShiftInRange64(s))
        /\ co.panic = (checked /\ cori # 0)
        /\ ~co.panic =>
             /\ \A k \in 0..7 : f[k] \in {0, 1, 2}
             /\ (f[0] + DigitSum(f)) % 3 = 0

\* how many of the edges after slot k have a smaller identity than slot k
SmallerAfter(c, k) == Cardinality({k2 \in (k + 1)..11 : c[k2] % 16 < c[k] % 16})

\* The lexicographic rank of the edge permutation of c, computed from its
\* Lehmer code in the factorial number system, slot 0 the most significant.
RECURSIVE LehmerRank(_, _)
LehmerRank(c, k) ==
  IF k > 10 THEN 0 ELSE SmallerAfter(c, k) * FC[k + 1] + LehmerRank(c, k + 1)

\* C5: for every rank n in 0..479001599, after set_edge_perm(n) the 12 edge
\* bytes hold, with all orientation bits zero, the permutation of 0..11
\* whose lexicographic rank is n; every identity 0..11 appears exactly once
\* (so distinct ranks give distinct permutations, the rank being read back
\* from the permutation alone).
C5_EdgePermRank ==
  pc = "set" =>
    /\ \A k \in 0..11 : x[k] <= 11
    /\ \A v \in 0..11 : Cardinality({k \in 0..11 : x[k] = v}) = 1
    /\ LehmerRank(x, 0) = eperm

\* C5 is exercised: the last rank was set on a cube with flipped edges, and
\* gave the reversed permutation with the flips cleared.
C5_Witness ==
  /\ pc = "set" /\ eperm = MaxEperm /\ HasFlip(y) /\ ~HasFlip(x)
  /\ \A k \in 0..11 : x[k] = 11 - k
  /\ LehmerRank(x, 0) = MaxEperm

\* the 48 entries of the symmetry table
SymSet == {sym(k) : k \in 0..47}

\* The odd entries of the symmetry table carry the S_LR2 factor: they are
\* the reflections.
IsReflection(k) == k % 2 = 1

\* C6 as stated: for every index i in 0..47, compose(sym()[i],
\* sym()[sym_inv()[i]]) equals the identity state.
C6_SymInvCompose ==
  pc = "composed" /\ j = sym_inv(i) => x = identity

\* C6, amended: sym()[i] and sym()[sym_inv()[i]] compose to the identity
\* with compose when sym()[i] is a rotation (even i) and with compose_mirror
\* when it is a reflection (odd i); for the reflections from index 17 on,
\* plain compose does not give the identity.
C6_SymInvByKind ==
  j = sym_inv(i) =>
    /\ (pc = "composed" /\ ~IsReflection(i) => x = identity)
    /\ (pc = "mirrored" /\ IsReflection(i) => x = identity)
    /\ (pc = "composed" /\ IsReflection(i) /\ i > 16 => x # identity)

\* C6 is exercised: a reflection with twisted corners is composed with the
\* entry sym_inv names, and only compose_mirror gives the identity.
C6_Witness ==
  /\ pc = "mirrored" /\ i = 17 /\ j = sym_inv(i) /\ j # i
  /\ HasTwist(sym(i)) /\ x = identity
  /\ compose(sym(i), sym(j)) # identity

\* C7 as stated: for every pair of indices i, j in 0..47, compose(sym()[i],
\* sym()[j]) is byte for byte an entry of the symmetry table, and the 48
\* entries are pairwise distinct.
C7_ClosedUnderCompose ==
  /\ (pc = "composed" => x \in SymSet)
  /\ (sym(i) = sym(j) => i = j)

\* C7, amended: the 48 entries are pairwise distinct, and the table is
\* closed under the composition that uses compose when the left operand
\* sym()[i] is a rotation and compose_mirror when it is a reflection; plain
\* compose leaves the table exactly when sym()[i] is a reflection and
\* sym()[j] has index 16 or more.
C7_ClosedByKind ==
  /\ (sym(i) = sym(j) => i = j)
  /\ (pc = "composed" /\ ~IsReflection(i) => x \in SymSet)
  /\ (pc = "mirrored" /\ IsReflection(i) => x \in SymSet)
  /\ (pc = "composed" /\ IsReflection(i) => (x \in SymSet <=> j < 16))

\* C7 is exercised: a reflection composed with a symmetry that twists
\* corners lands in the table with compose_mirror and outside it with
\* compose.
C7_Witness ==
  /\ pc = "mirrored" /\ IsReflection(i) /\ j >= 16 /\ HasTwist(sym(j))
  /\ x \in SymSet /\ x # identity
  /\ compose(sym(i), sym(j)) \notin SymSet

\* C8: the move table is laid out (quarter turn, half turn, inverse quarter
\* turn) per face: from the identity, four compositions with moves()[3f]
\* return the identity (and fewer do not), two give moves()[3f+1], and
\* moves()[3f] then moves()[3f+2] returns the identity.
C8_MoveLayout ==
  /\ (pc = "turning" /\ m % 3 = 0 /\ turns = 4 => x = identity)
  /\ (pc = "turning" /\ m % 3 = 0 /\ turns \in 1..3 => x # identity)
  /\ (pc = "turning" /\ m % 3 = 0 /\ turns = 2 => x = moves(m + 1))
  /\ (pc = "undone" => x = identity)

\* C8 is exercised: the F quarter turn, which flips edges and twists
\* corners, was applied four times.
C8_Witness ==
  /\ pc = "turning" /\ m = 6 /\ turns = 4 /\ x = identity
  /\ HasFlip(moves(m)) /\ HasTwist(moves(m))

\* moves()[mv] conjugated by sym()[k] the other way round: !s * m * s
ConjugateBack(k, mv) == compose(compose(invert(sym(k)), moves(mv)), sym(k))

\* moves()[mv] conjugated by sym()[k] with the composition of the symmetry's
\* kind (compose_mirror where the left operand is a reflection) and the
\* inverse that sym_inv names
ConjugateByKind(k, mv) ==
  compose_perhaps_mirror(
    compose_perhaps_mirror(sym(k), moves(mv), IsReflection(k)),
    sym(sym_inv(k)), IsReflection(k))

\* the symmetries whose conjugation of every move is column c of move_sym_6
ColumnSyms(c) ==
  {s \in 0..47 :
     \/ \A mv \in 0..17 : moves(move_sym_6(mv, c)) = Conjugate(s, mv)
     \/ \A mv \in 0..17 : moves(move_sym_6(mv, c)) = ConjugateBack(s, mv)}

\* the cubes G are closed under compose
ClosedUnderCompose(G) == \A a \in G : \A b \in G : compose(a, b) \in G

\* column c of move_sym_6 is a permutation of 0..17
ColumnIsPermutation(c) == {move_sym_6(mv, c) : mv \in 0..17} = 0..17

\* C9 as stated: there are six symmetry-table elements s_0..s_5 forming a
\* subgroup such that, for every move m and every column c in 0..5,
\* moves()[move_sym_6()[m][c]] is the conjugate of moves()[m] by s_c; each of
\* the six columns is a permutation of 0..17.
C9_SixConjugations ==
  /\ \E s0 \in ColumnSyms(0) : \E s1 \in ColumnSyms(1) : \E s2 \in ColumnSyms(2) :
     \E s3 \in ColumnSyms(3) : \E s4 \in ColumnSyms(4) : \E s5 \in ColumnSyms(5) :
       ClosedUnderCompose({sym(s0), sym(s1), sym(s2), sym(s3), sym(s4), sym(s5)})
  /\ \A c \in 0..5 : ColumnIsPermutation(c)

\* the powers of S_URF3 in the symmetry table
URF3Syms == {0, 16, 32}

\* C9, amended: columns 0..2 of move_sym_6 are the conjugation of the moves
\* by the three symmetries sym()[0], sym()[16], sym()[32], which form a
\* subgroup; columns 3..5 hold the inverses of the moves of columns 0..2,
\* which no element of the symmetry table produces by conjugation; each of
\* the six columns is a permutation of 0..17.
C9_ConjugationAndInverse ==
  /\ \A c \in 0..5 : \E mv \in 0..17 : move_sym_6(mv, c) = m
  /\ pc = "conjugated" /\ i \in URF3Syms =>
       /\ x = moves(move_sym_6(m, i \div 16))
       /\ invert(x) = moves(move_sym_6(m, 3 + i \div 16))
       /\ \A k \in URF3Syms : \E k2 \in URF3Syms : compose(sym(i), sym(k)) = sym(k2)
  /\ pc = "conjugated" =>
       \A c \in 3..5 :
         /\ \E mv \in 0..17 : moves(move_sym_6(mv, c)) # Conjugate(i, mv)
         /\ \E mv \in 0..17 : moves(move_sym_6(mv, c)) # ConjugateBack(i, mv)
         /\ \E mv \in 0..17 : moves(move_sym_6(mv, c)) # ConjugateByKind(i, mv)

\* C9 is exercised: a move was conjugated by sym()[16], the result is the
\* move of column 1, a different move, and its inverse is that of column 4.
C9_Witness ==
  /\ pc = "conjugated" /\ i = 16 /\ m = 0
  /\ x = moves(move_sym_6(m, 1)) /\ x # moves(m)
  /\ invert(x) = moves(move_sym_6(m, 4)) /\ invert(x) # x

\* C11: S_URF3i() is the group inverse of S_URF3(): compose(S_URF3(),
\* S_URF3i()) and compose(S_URF3i(), S_URF3()) both equal the identity
\* state, and S_URF3 composed three times from the identity returns the
\* identity.
C11_URF3Inverse ==
  y = identity =>
    /\ (pc = "restored" => x = identity)
    /\ (pc = "rotating" /\ turns = 3 => x = identity)

\* What does hold of the generators of C11: S_URF3 has order exactly 3 and
\* its inverse is sym()[32]; S_URF3i is the same cube as S_F2, of order 2,
\* and composing S_URF3 and S_URF3i in either order never restores a cube.
C11_URF3iIsF2 ==
  /\ S_URF3i = S_F2 /\ S_URF3 = sym(16)
  /\ (pc = "rotating" => (x = y <=> turns = 3))
  /\ (pc = "rotating" /\ turns = 2 => compose(y, sym(32)) = x)
  /\ (pc = "rotated back" => x # y /\ compose(x, S_URF3i) = y)
  /\ (pc = "restored" /\ turns = 1 => x # y)

C13_AssertionHolds == pc # "panicked"

\* the rank of the orientations of corners 1..7 of c in base 3
OrientRank(c) ==
  Orient(c[17]) + 3 * Orient(c[18]) + 9 * Orient(c[19]) + 27 * Orient(c[20])
  + 81 * Orient(c[21]) + 243 * Orient(c[22]) + 729 * Orient(c[23])

\* What does hold of the assertion of C13: it fires exactly when one of
\* corners 2, 3, 6, 7 is twisted (their products land in the high halves of
\* the two 64-bit extracts); where the call returns, the result is the
\* base-3 rank of corners 1..7.
C13_AssertionByCorner ==
  /\ (pc = "panicked" <=>
        pc # "start" /\ checked /\ \E k \in {18, 19, 22, 23} : Orient(x[k]) # 0)
  /\ (pc = "ranked" => rank.val = Bytes32(OrientRank(x)))

\* the table cubes and their products with the 18 moves
ParityCubes == TableCubes \cup {compose(a, moves(k)) : a \in TableCubes, k \in 0..17}

\* C14: the correction 0x5f005f xored into the comparison bitmask of parity
\* is required for correctness: with 0 in its place, parity returns another
\* value for at least one well-formed state.
C14_CorrectionRequired ==
  \E c \in ParityCubes \cup {x, invert(x)} : parity_uncorrected(c) # parity(c)

\* C14, amended: the correction has an even number of set bits (twelve), so
\* xoring it into the bitmask never changes the parity of the population
\* count: with 0 in its place parity returns the same value for every
\* well-formed state, the value C3 describes.
C14_CorrectionImmaterial ==
  pc = "algebra" =>
    /\ popcnt32(Bits32(parity_correction)) = 12
    /\ parity_uncorrected(x) = parity(x)
    /\ parity_uncorrected(x) = (Inversions(Perm20(x)) % 2 = 1)

\* C14 is exercised: an odd cube outside the symmetry table, reached by an
\* operation, on which parity is true with and without the correction.
C14_Witness ==
  /\ pc = "algebra" /\ ops = 1 /\ x \notin SymSet
  /\ parity(x) /\ parity_uncorrected(x)

====
